---------------------------- MODULE Spec2Model ----------------------------
(***************************************************************************)
(* Model of sentry-gateway.go: the Alertmanager -> Sentry gateway.         *)
(*                                                                         *)
(* Goroutines of the program and how they appear here:                     *)
(*   main/run      runPc, runErr, exit of the process (alive, exitCode)    *)
(*   listener      listenPc  (the goroutine around s.ListenAndServe)       *)
(*   HTTP handlers hPc[h], hBody[h]  (one goroutine per accepted request)  *)
(*   worker        wPc, wFrom, wAlerts, wIdx                               *)
(*   raven client  inflight  (submissions whose completion channel has     *)
(*                 not been signalled yet)                                 *)
(* hookChan is the Go channel made at line 103: chanBuf is its buffer      *)
(* (capacity ChanCap), closed its closed flag.                             *)
(*                                                                         *)
(* Every action runs one goroutine from one blocking operation to the      *)
(* next one (channel send/receive, network read, Shutdown, <-sigCh).       *)
(* History variables (dispatched, failures, dequeued, observed) record     *)
(* what happened; they never guard an action.                              *)
(***************************************************************************)
EXTENDS Integers, Sequences, FiniteSets, TLC

(* ------------------------------ bounds --------------------------------- *)
\* number of HTTP requests a behaviour may see
MaxHandlers == 2
\* longest alert list of one webhook message
MaxAlerts == 2

Handlers == 1..MaxHandlers

(* --------------------------- program constants ------------------------- *)
ChanCapBuffered == MaxHandlers

\* hookChan := make(chan *notify.WebhookMessage): no capacity argument
ChanCap == 0

\* line 30
defaultTemplate == "default"

(* ------------------------------- inputs -------------------------------- *)
\* A template file whose text parses but whose execution fails on every
\* alert (a field the alert type does not have), e.g.
\*   {{ .Labels.alertname }}: {{ .Annotation.message }}
StrictTemplate == "strict"
\* A template file with a syntax error, e.g. "{{ .Labels.alertname"
BrokenTemplate == "broken"

\* --template values: none, a file that cannot be read, and two readable files
TemplatePaths == {"", "missing.tmpl", "broken.tmpl", "strict.tmpl"}
\* --dsn values
Dsns == {"", "https://key@sentry.example/1"}

Configs == [dsn : Dsns, tmplPath : TemplatePaths, addrFree : BOOLEAN]

NoLabels == [k \in {} |-> ""]

\* alerts a webhook body may carry (labels and annotations are Go maps:
\* partial functions from key to string)
FullAlert ==
  [labels |-> [k \in {"alertname", "namespace", "pod_name"} |->
                 CASE k = "alertname" -> "PodDown"
                   [] k = "namespace" -> "prod"
                   [] k = "pod_name"  -> "web-1"],
   annotations |-> [k \in {"message"} |-> "pod unresponsive"]]

BareAlert == [labels |-> NoLabels, annotations |-> NoLabels]

AlertKinds == {FullAlert, BareAlert}

AlertSeqs == UNION { [1..n -> AlertKinds] : n \in 0..MaxAlerts }

\* request bodies: JSON that does not decode, or a WebhookMessage
Bodies == { [valid |-> FALSE, alerts |-> <<>>] }
            \cup { [valid |-> TRUE, alerts |-> s] : s \in AlertSeqs }

NoBody == [valid |-> FALSE, alerts |-> <<>>]

(* ------------------------------ state ---------------------------------- *)
VARIABLES
  cfg,        \* command line and environment of this run
  runPc,      \* position of run(): start, serving, shutdown, shutwait, drain, returned
  runErr,     \* value returned by run(): none (not returned), nil, dsn, readfile, parse, timeout
  tmpl,       \* the parsed template t ("" before template.Parse succeeded)
  listenPc,   \* off, starting, listening, closed, failed
  alive,      \* FALSE once the process has exited
  exitCode,   \* -1 while alive
  hPc,        \* per request: idle, decode, send, done, panicked
  hBody,      \* per request: the body received
  chanBuf,    \* buffered elements of hookChan
  closed,     \* close(hookChan) has run
  wPc,        \* off, recv, render, wait, exited
  wFrom,      \* request whose message the worker holds (0: none)
  wAlerts,    \* wh.Alerts of the message the worker holds
  wIdx,       \* index of the alert of the inner loop
  inflight,   \* submissions handed to raven.Capture and not yet completed
  dispatched, \* history: one entry per raven.Capture call
  failures,   \* history: number of submissions that completed with a failure
  dequeued,   \* history: requests in the order the worker received them
  observed    \* history: len(hookChan) = 0 was observed by the drain loop

vars == << cfg, runPc, runErr, tmpl, listenPc, alive, exitCode, hPc, hBody,
           chanBuf, closed, wPc, wFrom, wAlerts, wIdx, inflight, dispatched,
           failures, dequeued, observed >>

runVars    == << runPc, runErr >>
workerVars == << wPc, wFrom, wAlerts, wIdx >>
histVars   == << dispatched, failures, dequeued >>

(* ------------------------- pure parts of the code ---------------------- *)
\* Go map index: alert.Labels["k"] is "" when the key is absent
LabelGet(m, k) == IF k \in DOMAIN m THEN m[k] ELSE ""

DsnNeverMissing(dsn) == FALSE

\* line 81
DsnMissing(dsn) == dsn = ""

\* ioutil.ReadFile(tmplPath), lines 88-93
ReadFile(path) ==
  CASE path = "missing.tmpl" -> [err |-> TRUE,  text |-> ""]
    [] path = "broken.tmpl"  -> [err |-> FALSE, text |-> BrokenTemplate]
    [] path = "strict.tmpl"  -> [err |-> FALSE, text |-> StrictTemplate]
    [] OTHER                 -> [err |-> TRUE,  text |-> ""]

\* t.Parse(tmpl), lines 96-101
ParseOk(text) == text /= BrokenTemplate

DecodeOkAlways(body) == TRUE

\* json.NewDecoder(r.Body).Decode(&wh), lines 109-116
DecodeOk(body) == body.valid

\* html/template (import at line 9) escapes every value it writes in text
\* context: the six characters below are replaced, all others are kept
EscapeChar(c) ==
  CASE c = "&"  -> "&amp;"
    [] c = "<"  -> "&lt;"
    [] c = ">"  -> "&gt;"
    [] c = "\"" -> "&#34;"
    [] c = "'"  -> "&#39;"
    [] c = "+"  -> "&#43;"
    [] OTHER    -> c

HTMLEscape(s) ==
  LET esc[i \in 0..Len(s)] ==
        IF i = 0 THEN "" ELSE esc[i - 1] \o EscapeChar(SubSeq(s, i, i))
  IN  esc[Len(s)]

\* {{ .Labels.k }} under Option("missingkey=zero"), lines 96-98 and 161: the
\* value of the key, or the zero value "" of the map's element type, escaped
FieldNoEscape(m, k) == LabelGet(m, k)

Field(m, k) == HTMLEscape(LabelGet(m, k))

\* t.Execute(&buf, alert), line 161: err and the bytes written to buf.
\* A failing execution has already written the text before the failing node.
Execute(t, alert) ==
  IF t = StrictTemplate
  THEN [err |-> TRUE,
        buf |-> Field(alert.labels, "alertname") \o ": "]
  ELSE [err |-> FALSE,
        buf |-> Field(alert.labels, "alertname") \o " - "
                  \o Field(alert.labels, "namespace") \o "/"
                  \o Field(alert.labels, "pod_name") \o "\n"
                  \o Field(alert.annotations, "message")]

FingerprintNameLast(alert) ==
  << LabelGet(alert.labels, "namespace"), LabelGet(alert.labels, "pod_name"),
     LabelGet(alert.labels, "alertname") >>

\* line 179
Fingerprint(alert) ==
  << LabelGet(alert.labels, "alertname"), LabelGet(alert.labels, "namespace"),
     LabelGet(alert.labels, "pod_name") >>

\* line 180: fmt.Sprintf("%s/%s", namespace, pod_name)
ServerName(alert) ==
  LabelGet(alert.labels, "namespace") \o "/" \o LabelGet(alert.labels, "pod_name")

\* lines 164-168
FallbackMessage(alert) ==
  IF LabelGet(alert.labels, "alertname") = ""
  THEN "fallback"
  ELSE LabelGet(alert.labels, "alertname")

MessageIgnoringErr(res, alert) == res.buf

\* lines 162-171
Message(res, alert) ==
  IF res.err THEN FallbackMessage(alert) ELSE res.buf

NextAlertRetry(i, outcome) == IF outcome = "failed" THEN i ELSE i + 1

NextAlertSkip(i, outcome) == i + 2

\* the inner for-range of lines 158-187 moves to the next alert after <-ch
NextAlert(i, outcome) == i + 1

LoopPcDropLast(alerts, i) == IF i < Len(alerts) THEN "render" ELSE "recv"

\* position of the worker when the inner loop is at index i
LoopPc(alerts, i) == IF i <= Len(alerts) THEN "render" ELSE "recv"

AfterCaptureNoWait == "render"

\* line 184: the worker blocks on the completion channel
AfterCapture == "wait"

ExitCodeAlwaysZero(err) == 0

\* main, lines 48-52
ExitCode(err) == IF err = "nil" THEN 0 ELSE 1

\* s.Shutdown has been called: listeners closed, ListenAndServe returns
\* http.ErrServerClosed
InShutdown == runPc \in {"shutdown", "shutwait", "drain"} \/ closed
               \/ runErr = "timeout"

ListenerLeftOpen(l) == l

\* s.Shutdown, line 143, closes the listening socket before it waits for the
\* connections
ListenerAfterShutdown(l) == IF l = "listening" THEN "closed" ELSE l

\* the listener takes connections while its socket is open
Accepting == listenPc = "listening"

\* a connection is active from accept until its handler returns
Active(h) == hPc[h] \in {"decode", "send"}

(* ------------------------------- Init ---------------------------------- *)
Init ==
  /\ cfg \in Configs
  /\ runPc = "start"
  /\ runErr = "none"
  /\ tmpl = ""
  /\ listenPc = "off"
  /\ alive = TRUE
  /\ exitCode = -1
  /\ hPc = [h \in Handlers |-> "idle"]
  /\ hBody = [h \in Handlers |-> NoBody]
  /\ chanBuf = <<>>
  /\ closed = FALSE
  /\ wPc = "off"
  /\ wFrom = 0
  /\ wAlerts = <<>>
  /\ wIdx = 0
  /\ inflight = 0
  /\ dispatched = <<>>
  /\ failures = 0
  /\ dequeued = <<>>
  /\ observed = FALSE

(* ------------------------------ run() ---------------------------------- *)
\* lines 81-101: a configuration error makes run return before anything starts
StartupFail ==
  /\ alive /\ runPc = "start"
  /\ LET file == ReadFile(cfg.tmplPath)
         text == IF cfg.tmplPath = "" THEN defaultTemplate ELSE file.text
     IN  /\ \/ DsnMissing(cfg.dsn) /\ runErr' = "dsn"
            \/ /\ ~DsnMissing(cfg.dsn)
               /\ cfg.tmplPath /= "" /\ file.err
               /\ runErr' = "readfile"
            \/ /\ ~DsnMissing(cfg.dsn)
               /\ ~(cfg.tmplPath /= "" /\ file.err)
               /\ ~ParseOk(text)
               /\ runErr' = "parse"
  /\ runPc' = "returned"
  /\ UNCHANGED << cfg, tmpl, listenPc, alive, exitCode, hPc, hBody, chanBuf,
                  closed, workerVars, inflight, histVars, observed >>

\* lines 81-138: all checks pass; the listener goroutine and the worker are
\* started and run blocks on <-sigCh
StartupOk ==
  /\ alive /\ runPc = "start"
  /\ LET file == ReadFile(cfg.tmplPath)
         text == IF cfg.tmplPath = "" THEN defaultTemplate ELSE file.text
     IN  /\ ~DsnMissing(cfg.dsn)
         /\ ~(cfg.tmplPath /= "" /\ file.err)
         /\ ParseOk(text)
         /\ tmpl' = text
  /\ runPc' = "serving"
  /\ listenPc' = "starting"
  /\ wPc' = "recv"
  /\ UNCHANGED << cfg, runErr, alive, exitCode, hPc, hBody, chanBuf, closed,
                  wFrom, wAlerts, wIdx, inflight, histVars, observed >>

\* lines 138-143: SIGTERM or SIGINT is received and s.Shutdown(ctx) is called:
\* it closes the listener and then polls for the connections to become idle
Signal ==
  /\ alive /\ runPc = "serving"
  /\ runPc' = "shutdown"
  /\ listenPc' = ListenerAfterShutdown(listenPc)
  /\ UNCHANGED << cfg, runErr, tmpl, alive, exitCode, hPc, hBody, chanBuf,
                  closed, workerVars, inflight, histVars, observed >>

ShutdownOkNoWait ==
  /\ alive /\ runPc \in {"shutdown", "shutwait"}
  /\ runPc' = "drain"
  /\ UNCHANGED << cfg, runErr, tmpl, listenPc, alive, exitCode, hPc, hBody,
                  chanBuf, closed, workerVars, inflight, histVars, observed >>

\* s.Shutdown, line 143: a poll finds no active connection (the first poll
\* or a later one, after a tick of its timer): Shutdown returns nil
ShutdownOk ==
  /\ alive /\ runPc \in {"shutdown", "shutwait"}
  /\ \A h \in Handlers : ~Active(h)
  /\ runPc' = "drain"
  /\ UNCHANGED << cfg, runErr, tmpl, listenPc, alive, exitCode, hPc, hBody,
                  chanBuf, closed, workerVars, inflight, histVars, observed >>

\* s.Shutdown, line 143: the first poll finds an active connection; Shutdown
\* now waits for its poll timer or for the 10 s context
ShutdownBusy ==
  /\ alive /\ runPc = "shutdown"
  /\ \E h \in Handlers : Active(h)
  /\ runPc' = "shutwait"
  /\ UNCHANGED << cfg, runErr, tmpl, listenPc, alive, exitCode, hPc, hBody,
                  chanBuf, closed, workerVars, inflight, histVars, observed >>

ShutdownTimeoutIgnored ==
  /\ alive /\ runPc = "shutwait"
  /\ runPc' = "drain"
  /\ UNCHANGED << cfg, runErr, tmpl, listenPc, alive, exitCode, hPc, hBody,
                  chanBuf, closed, workerVars, inflight, histVars, observed >>

\* lines 140-146: the 10 s context expires first; Shutdown returns ctx.Err()
\* and run returns it
ShutdownTimeout ==
  /\ alive /\ runPc = "shutwait"
  /\ runPc' = "returned"
  /\ runErr' = "timeout"
  /\ UNCHANGED << cfg, tmpl, listenPc, alive, exitCode, hPc, hBody, chanBuf,
                  closed, workerVars, inflight, histVars, observed >>

DrainCloseAwaitsWorker ==
  /\ alive /\ runPc = "drain"
  /\ Len(chanBuf) = 0 /\ wPc = "recv"
  /\ observed' = TRUE
  /\ closed' = TRUE
  /\ runPc' = "returned"
  /\ runErr' = "nil"
  /\ UNCHANGED << cfg, tmpl, listenPc, alive, exitCode, hPc, hBody, chanBuf,
                  workerVars, inflight, histVars >>

\* lines 148-153: the drain loop leaves when len(hookChan) is 0, then
\* close(hookChan) and return nil
DrainClose ==
  /\ alive /\ runPc = "drain"
  /\ Len(chanBuf) = 0
  /\ observed' = TRUE
  /\ closed' = TRUE
  /\ runPc' = "returned"
  /\ runErr' = "nil"
  /\ UNCHANGED << cfg, tmpl, listenPc, alive, exitCode, hPc, hBody, chanBuf,
                  workerVars, inflight, histVars >>

\* main, lines 48-53: cmd.Execute returned; the process exits
MainExit ==
  /\ alive /\ runPc = "returned"
  /\ alive' = FALSE
  /\ exitCode' = ExitCode(runErr)
  /\ UNCHANGED << cfg, runVars, tmpl, listenPc, hPc, hBody, chanBuf, closed,
                  workerVars, inflight, histVars, observed >>

(* --------------------------- listener goroutine ------------------------ *)
\* line 127: ListenAndServe binds the address and serves
ListenBind ==
  /\ alive /\ listenPc = "starting" /\ ~InShutdown
  /\ cfg.addrFree
  /\ listenPc' = "listening"
  /\ UNCHANGED << cfg, runVars, tmpl, alive, exitCode, hPc, hBody, chanBuf,
                  closed, workerVars, inflight, histVars, observed >>

\* lines 127-131: ListenAndServe fails to bind; os.Exit(1)
ListenFail ==
  /\ alive /\ listenPc = "starting" /\ ~InShutdown
  /\ ~cfg.addrFree
  /\ listenPc' = "failed"
  /\ alive' = FALSE
  /\ exitCode' = 1
  /\ UNCHANGED << cfg, runVars, tmpl, hPc, hBody, chanBuf, closed,
                  workerVars, inflight, histVars, observed >>

\* lines 127-128: ListenAndServe is reached after Shutdown: it returns
\* http.ErrServerClosed and the goroutine ends
ListenClosed ==
  /\ alive /\ listenPc = "starting" /\ InShutdown
  /\ listenPc' = "closed"
  /\ UNCHANGED << cfg, runVars, tmpl, alive, exitCode, hPc, hBody, chanBuf,
                  closed, workerVars, inflight, histVars, observed >>

(* ------------------------------ handlers ------------------------------- *)
\* a request is accepted: net/http starts the handler of lines 106-119
\* (requests are numbered in the order in which they are accepted)
Accept(h, body) ==
  /\ alive /\ Accepting
  /\ hPc[h] = "idle"
  /\ \A g \in Handlers : g < h => hPc[g] /= "idle"
  /\ hPc' = [hPc EXCEPT ![h] = "decode"]
  /\ hBody' = [hBody EXCEPT ![h] = body]
  /\ UNCHANGED << cfg, runVars, tmpl, listenPc, alive, exitCode, chanBuf,
                  closed, workerVars, inflight, histVars, observed >>

\* lines 109-116: decode the body; on error print and return
Decode(h) ==
  /\ alive /\ hPc[h] = "decode"
  /\ hPc' = [hPc EXCEPT ![h] = IF DecodeOk(hBody[h]) THEN "send" ELSE "done"]
  /\ UNCHANGED << cfg, runVars, tmpl, listenPc, alive, exitCode, hBody,
                  chanBuf, closed, workerVars, inflight, histVars, observed >>

\* line 118: hookChan <- &wh. On a closed channel the send panics (net/http
\* recovers the panic of a handler). Otherwise the send completes when the
\* worker is blocked in its receive and nothing is buffered (direct handoff,
\* the worker then holds the message), or when the buffer has room.
Send(h) ==
  /\ alive /\ hPc[h] = "send"
  /\ IF closed
     THEN /\ hPc' = [hPc EXCEPT ![h] = "panicked"]
          /\ UNCHANGED << chanBuf, workerVars, dequeued >>
     ELSE IF wPc = "recv" /\ chanBuf = <<>>
     THEN /\ hPc' = [hPc EXCEPT ![h] = "done"]
          /\ wFrom' = h
          /\ wAlerts' = hBody[h].alerts
          /\ wIdx' = 1
          /\ wPc' = LoopPc(hBody[h].alerts, 1)
          /\ dequeued' = Append(dequeued, h)
          /\ UNCHANGED chanBuf
     ELSE /\ Len(chanBuf) < ChanCap
          /\ hPc' = [hPc EXCEPT ![h] = "done"]
          /\ chanBuf' = Append(chanBuf, h)
          /\ UNCHANGED << workerVars, dequeued >>
  /\ UNCHANGED << cfg, runVars, tmpl, listenPc, alive, exitCode, hBody,
                  closed, inflight, dispatched, failures, observed >>

(* ------------------------------- worker -------------------------------- *)
WorkerRangeEager ==
  /\ alive /\ wPc = "recv" /\ chanBuf = <<>>
  /\ wPc' = "exited"
  /\ UNCHANGED << cfg, runVars, tmpl, listenPc, alive, exitCode, hPc, hBody,
                  chanBuf, closed, wFrom, wAlerts, wIdx, inflight, histVars,
                  observed >>

\* line 157, for wh := range hookChan, when no sender hands over directly:
\* take a buffered message, or leave the loop when the channel is closed and
\* empty
WorkerRange ==
  /\ alive /\ wPc = "recv"
  /\ IF chanBuf /= <<>>
     THEN /\ wFrom' = Head(chanBuf)
          /\ wAlerts' = hBody[Head(chanBuf)].alerts
          /\ wIdx' = 1
          /\ wPc' = LoopPc(hBody[Head(chanBuf)].alerts, 1)
          /\ chanBuf' = Tail(chanBuf)
          /\ dequeued' = Append(dequeued, Head(chanBuf))
     ELSE /\ closed
          /\ wPc' = "exited"
          /\ UNCHANGED << wFrom, wAlerts, wIdx, chanBuf, dequeued >>
  /\ UNCHANGED << cfg, runVars, tmpl, listenPc, alive, exitCode, hPc, hBody,
                  closed, inflight, dispatched, failures, observed >>

\* lines 159-183: render the alert, build the packet, raven.Capture
WorkerSubmit ==
  /\ alive /\ wPc = "render"
  /\ LET alert == wAlerts[wIdx]
         res   == Execute(tmpl, alert)
     IN  dispatched' = Append(dispatched,
                          [h |-> wFrom, i |-> wIdx, alert |-> alert,
                           msg |-> Message(res, alert),
                           fingerprint |-> Fingerprint(alert),
                           serverName |-> ServerName(alert)])
  /\ inflight' = inflight + 1
  /\ wPc' = AfterCapture
  /\ UNCHANGED << cfg, runVars, tmpl, listenPc, alive, exitCode, hPc, hBody,
                  chanBuf, closed, wFrom, wAlerts, wIdx, failures, dequeued,
                  observed >>

WorkerAckTimesOut(outcome) ==
  /\ alive /\ wPc = "wait"
  /\ wIdx' = NextAlert(wIdx, outcome)
  /\ wPc' = LoopPc(wAlerts, NextAlert(wIdx, outcome))
  /\ UNCHANGED << cfg, runVars, tmpl, listenPc, alive, exitCode, hPc, hBody,
                  chanBuf, closed, wFrom, wAlerts, inflight, histVars,
                  observed >>

\* lines 184-187: the completion channel of the submission is signalled
\* (the submission succeeded or failed), the worker logs and goes on
WorkerAck(outcome) ==
  /\ alive /\ wPc = "wait" /\ inflight > 0
  /\ inflight' = inflight - 1
  /\ failures' = IF outcome = "failed" THEN failures + 1 ELSE failures
  /\ wIdx' = NextAlert(wIdx, outcome)
  /\ wPc' = LoopPc(wAlerts, NextAlert(wIdx, outcome))
  /\ UNCHANGED << cfg, runVars, tmpl, listenPc, alive, exitCode, hPc, hBody,
                  chanBuf, closed, wFrom, wAlerts, dispatched, dequeued,
                  observed >>

(* ------------------------------- Next ---------------------------------- *)
Next ==
  \/ StartupFail
  \/ StartupOk
  \/ Signal
  \/ ShutdownOk
  \/ ShutdownBusy
  \/ ShutdownTimeout
  \/ DrainClose
  \/ MainExit
  \/ ListenBind
  \/ ListenFail
  \/ ListenClosed
  \/ \E h \in Handlers, body \in Bodies : Accept(h, body)
  \/ \E h \in Handlers : Decode(h)
  \/ \E h \in Handlers : Send(h)
  \/ WorkerRange
  \/ WorkerSubmit
  \/ \E outcome \in {"ok", "failed"} : WorkerAck(outcome)

Spec == Init /\ [][Next]_vars

(* ------------------- the serving runs, with fairness ------------------- *)
\* configurations that pass every startup check and bind the address
LiveConfigs ==
  { c \in Configs : c.dsn /= "" /\ c.tmplPath \in {"", "strict.tmpl"}
                     /\ c.addrFree }

\* bodies whose alerts are all the same alert (the worker's control flow
\* does not depend on the content of an alert)
LiveBodies ==
  { [valid |-> FALSE, alerts |-> <<>>] }
    \cup { [valid |-> TRUE, alerts |-> [i \in 1..n |-> FullAlert]] :
             n \in 0..MaxAlerts }

LiveInit == Init /\ cfg \in LiveConfigs

LiveNext ==
  \/ StartupOk
  \/ Signal
  \/ ShutdownOk
  \/ ShutdownBusy
  \/ ShutdownTimeout
  \/ DrainClose
  \/ MainExit
  \/ ListenBind
  \/ ListenClosed
  \/ \E h \in Handlers, body \in LiveBodies : Accept(h, body)
  \/ \E h \in Handlers : Decode(h)
  \/ \E h \in Handlers : Send(h)
  \/ WorkerRange
  \/ WorkerSubmit
  \/ \E outcome \in {"ok", "failed"} : WorkerAck(outcome)

\* The Go scheduler runs every runnable goroutine: a handler that can decode
\* or send does so, the worker that can go on does so. Every submission is
\* eventually completed by the raven client. No fairness on the signal, on
\* the arrival of requests, on the grace period or on the exit of main.
Fairness ==
  /\ WF_vars(WorkerRange)
  /\ WF_vars(WorkerSubmit)
  /\ WF_vars(\E outcome \in {"ok", "failed"} : WorkerAck(outcome))
  /\ \A h \in Handlers : WF_vars(Decode(h)) /\ WF_vars(Send(h))

LiveSpec == LiveInit /\ [][LiveNext]_vars /\ Fairness

(* --------------- one alert in the hands of the worker ------------------ *)
\* label and annotation values a webhook may carry for each key
KeyValues(k) ==
  CASE k = "alertname" -> {"PodDown", "", "Disk<Full>&+"}
    [] k = "namespace" -> {"prod"}
    [] k = "pod_name"  -> {"web-1"}
    [] k = "message"   -> {"pod unresponsive", "it's \"up\""}

\* every map over a subset of the keys
Maps(keys) ==
  UNION { { m \in [D -> UNION { KeyValues(k) : k \in keys }] :
              \A k \in D : m[k] \in KeyValues(k) } : D \in SUBSET keys }

RenderAlerts ==
  [labels : Maps({"alertname", "namespace", "pod_name"}),
   annotations : Maps({"message"})]

\* The state after a request with a one-alert message has been accepted,
\* decoded and handed to the worker, for every alert of RenderAlerts.
RenderInit ==
  /\ cfg \in LiveConfigs
  /\ runPc = "serving"
  /\ runErr = "none"
  /\ tmpl = IF cfg.tmplPath = "" THEN defaultTemplate
            ELSE ReadFile(cfg.tmplPath).text
  /\ listenPc = "listening"
  /\ alive = TRUE
  /\ exitCode = -1
  /\ \E a \in RenderAlerts :
       /\ hBody = [h \in Handlers |->
                     IF h = 1 THEN [valid |-> TRUE, alerts |-> << a >>]
                     ELSE NoBody]
       /\ wAlerts = << a >>
  /\ hPc = [h \in Handlers |-> IF h = 1 THEN "done" ELSE "idle"]
  /\ chanBuf = <<>>
  /\ closed = FALSE
  /\ wPc = "render"
  /\ wFrom = 1
  /\ wIdx = 1
  /\ inflight = 0
  /\ dispatched = <<>>
  /\ failures = 0
  /\ dequeued = << 1 >>
  /\ observed = FALSE

RenderNext ==
  \/ WorkerSubmit
  \/ \E outcome \in {"ok", "failed"} : WorkerAck(outcome)

RenderSpec == RenderInit /\ [][RenderNext]_vars

(* ------------------------ vocabulary of the claims --------------------- *)
\* the dispatch attempts made for the message of request h, in order
Attempts(h) == SelectSeq(dispatched, LAMBDA e : e.h = h)

\* number of alerts of the message of request h
NumAlerts(h) == Len(hBody[h].alerts)

\* the worker received the message of h
Dequeued(h) == \E k \in 1..Len(dequeued) : dequeued[k] = h

\* the send of line 118 completed for h
Enqueued(h) == hPc[h] = "done" /\ hBody[h].valid

\* the worker received the message of h and has left its inner loop
Finished(h) == Dequeued(h) /\ ~(wFrom = h /\ wPc \in {"render", "wait"})

\* number of dispatch attempts made for alert i of the message of h
Count(h, i) ==
  Cardinality({ k \in 1..Len(dispatched) :
                  dispatched[k].h = h /\ dispatched[k].i = i })

\* the termination signal has been received by run
SignalReceived ==
  runPc \in {"shutdown", "shutwait", "drain"} \/ runErr \in {"nil", "timeout"}

(* -------------------------------- C1 ----------------------------------- *)
\* C1: for every message the worker has dequeued, the dispatch attempts made
\* for it are its alerts 1, 2, ... in their original order, each at most
\* once (no retry), and once the worker has left the message there are
\* exactly N of them, whatever the outcomes of the submissions were.
C1_ExactlyNInOrder ==
  \A h \in Handlers :
    /\ Len(Attempts(h)) <= NumAlerts(h)
    /\ \A k \in 1..Len(Attempts(h)) :
         /\ Attempts(h)[k].i = k
         /\ k <= NumAlerts(h) => Attempts(h)[k].alert = hBody[h].alerts[k]
    /\ Finished(h) => Len(Attempts(h)) = NumAlerts(h)
    /\ ~Dequeued(h) => Attempts(h) = <<>>

\* a message of two alerts was dispatched completely although both of its
\* submissions failed
C1_Witness ==
  \E h \in Handlers :
    /\ Finished(h) /\ NumAlerts(h) = 2 /\ Len(Attempts(h)) = 2
    /\ failures = 2 /\ Len(dispatched) = 2

(* -------------------------------- C2 ----------------------------------- *)
\* C2: once the message of a request has been enqueued, eventually all of
\* its alerts have been dispatched (submitted and acknowledged), unless the
\* process exits first.
C2_EnqueuedEventuallyDispatched ==
  \A h \in Handlers :
    Enqueued(h) ~>
      (\/ ~alive
       \/ /\ Len(Attempts(h)) = NumAlerts(h)
          /\ \A i \in 1..NumAlerts(h) : Count(h, i) = 1
          /\ Finished(h))

\* a message of MaxAlerts alerts was enqueued and all its alerts dispatched
\* while the process is alive
C2_Witness ==
  \E h \in Handlers :
    /\ alive /\ Enqueued(h) /\ Finished(h)
    /\ NumAlerts(h) = MaxAlerts /\ Len(Attempts(h)) = MaxAlerts

(* -------------------------------- C3 ----------------------------------- *)
\* two requests carrying two alerts each
TwoByTwo ==
  /\ hBody[1].valid /\ NumAlerts(1) = 2
  /\ hBody[2].valid /\ NumAlerts(2) = 2

FourOnce ==
  \A h \in {1, 2} : \A i \in {1, 2} : Count(h, i) = 1

\* positions in dispatched of alert i of the message of h
Positions(h, i) ==
  { k \in 1..Len(dispatched) : dispatched[k].h = h /\ dispatched[k].i = i }

C4_OneInFlight ==
  /\ inflight <= 1
  /\ wPc \in {"render", "recv"} => inflight = 0

\* the second alert of a message is in flight while another handler is
\* blocked with the next message
C4_Witness ==
  /\ inflight = 1 /\ wPc = "wait" /\ wIdx = 2
  /\ \E h \in Handlers : hPc[h] = "send"

(* -------------------------------- C5 ----------------------------------- *)
\* C5: the message of a request whose body does not decode is never
\* enqueued, dequeued or dispatched, and the step in which its handler ends
\* leaves the channel, the template, the worker and the histories unchanged.
C5_MalformedBodyNoEffect ==
  /\ [](\A h \in Handlers :
          ~hBody[h].valid =>
             /\ hPc[h] \in {"idle", "decode", "done"}
             /\ ~Dequeued(h)
             /\ Attempts(h) = <<>>
             /\ \A k \in 1..Len(chanBuf) : chanBuf[k] /= h)
  /\ [][\A h \in Handlers :
          (hPc[h] = "decode" /\ ~hBody[h].valid /\ hPc'[h] /= "decode") =>
             /\ hPc'[h] = "done"
             /\ UNCHANGED << chanBuf, closed, tmpl, wPc, wFrom, wAlerts, wIdx,
                             inflight, dispatched, dequeued >>]_vars

\* after a request with a malformed body ended, a later request was
\* enqueued and all its alerts were dispatched
C5_Witness ==
  /\ ~hBody[1].valid /\ hPc[1] = "done"
  /\ hBody[2].valid /\ NumAlerts(2) = 2 /\ Finished(2)
  /\ Len(Attempts(2)) = 2 /\ Len(dispatched) = 2

(* -------------------------------- C6 ----------------------------------- *)
\* the alertname label, when the alert has one that is not empty
HasAlertName(alert) ==
  "alertname" \in DOMAIN alert.labels /\ alert.labels["alertname"] /= ""

\* C6: every dispatched message is the rendered text when the execution of
\* the template succeeded; when it failed it is the alertname label if the
\* alert has a non-empty one and "fallback" otherwise; and an alert whose
\* rendering failed is followed by the dispatch of the next alert of its
\* message once the worker has left the message.
C6_FallbackMessage ==
  \A k \in 1..Len(dispatched) :
    LET e == dispatched[k]
        r == Execute(tmpl, e.alert)
    IN  /\ r.err /\ HasAlertName(e.alert) => e.msg = e.alert.labels["alertname"]
        /\ r.err /\ ~HasAlertName(e.alert) => e.msg = "fallback"
        /\ ~r.err => e.msg = r.buf
        /\ (e.i < NumAlerts(e.h) /\ Finished(e.h)) => Count(e.h, e.i + 1) = 1

\* rendering failed for an alert without alertname and for one with it, and
\* both were dispatched, the second after the first
C6_Witness ==
  /\ Len(dispatched) >= 2
  /\ Execute(tmpl, dispatched[1].alert).err
  /\ dispatched[1].msg = "fallback"
  /\ dispatched[2].h = dispatched[1].h
  /\ dispatched[2].msg = "PodDown"

(* -------------------------------- C7 ----------------------------------- *)
\* C7: once the termination signal has been received no request is
\* accepted, and the process has exited only if the drain loop observed the
\* queue empty or the grace period of the listener shutdown expired.
C7_ShutdownOrder ==
  /\ []((SignalReceived /\ ~alive) => (observed \/ runErr = "timeout"))
  /\ [][SignalReceived =>
          \A h \in Handlers : hPc[h] = "idle" => hPc'[h] = "idle"]_vars

\* the process exited after a signal and after it observed the queue empty,
\* and a request that could have come was never accepted
C7_Witness ==
  /\ SignalReceived /\ ~alive /\ observed
  /\ \E h \in Handlers : hPc[h] = "idle"
  /\ \E h \in Handlers : hPc[h] = "done"

(* -------------------------------- C8 ----------------------------------- *)
\* C8: the send of a handler never waits for the worker: whenever a handler
\* is at its send on the open channel, the send can complete at once.
C8_SendNeverBlocks ==
  \A h \in Handlers :
    (alive /\ hPc[h] = "send" /\ ~closed) => ENABLED Send(h)

(* -------------------------------- C9 ----------------------------------- *)
\* C9: when the grace period expires run returns the error without having
\* polled or closed the queue, and the process exits non-zero; when the
\* queue has been closed run returned nil and the process exits 0.
C9_ShutdownOutcome ==
  /\ runErr = "timeout" => ~observed /\ ~closed
  /\ (~alive /\ runErr = "timeout") => exitCode /= 0
  /\ closed => runErr = "nil"
  /\ (~alive /\ closed) => exitCode = 0

\* the grace period expired with a handler still blocked, and the process
\* has exited
C9_Witness ==
  /\ ~alive /\ runErr = "timeout" /\ exitCode = 1
  /\ \E h \in Handlers : hPc[h] = "send"

(* -------------------------------- C10 ---------------------------------- *)
\* a startup-fatal error occurs in this run
StartupFatal ==
  \/ cfg.dsn = ""
  \/ cfg.tmplPath \in {"missing.tmpl", "broken.tmpl"}
  \/ listenPc = "failed"

\* C10: in a run with a startup-fatal error no request is accepted, no
\* message is enqueued or dequeued, no alert is dispatched, the listener
\* never serves, and when the process has exited its exit code is non-zero.
C10_StartupFatal ==
  StartupFatal =>
    /\ \A h \in Handlers : hPc[h] = "idle"
    /\ chanBuf = <<>> /\ dequeued = <<>> /\ dispatched = <<>>
    /\ listenPc /= "listening"
    /\ ~alive => exitCode /= 0

\* the process exited with code 1 because no DSN was given
C10_Witness ==
  /\ cfg.dsn = "" /\ runErr = "dsn" /\ ~alive /\ exitCode = 1

(* -------------------------------- C11 ---------------------------------- *)
\* the value of key k of map m, the empty string when m lacks k
ValueOrEmpty(m, k) == IF k \in DOMAIN m THEN m[k] ELSE ""

\* C11: with the default template the rendering of every alert succeeds,
\* the fallback is not used, and the message is alertname + " - " +
\* namespace + "/" + pod_name + newline + message annotation, each absent
\* field being empty.
C11_MissingKeysRenderEmpty ==
  \A k \in 1..Len(dispatched) :
    LET e == dispatched[k]
        l == e.alert.labels
        n == e.alert.annotations
    IN  tmpl = defaultTemplate =>
          /\ ~Execute(tmpl, e.alert).err
          /\ e.msg = ValueOrEmpty(l, "alertname") \o " - "
                       \o ValueOrEmpty(l, "namespace") \o "/"
                       \o ValueOrEmpty(l, "pod_name") \o "\n"
                       \o ValueOrEmpty(n, "message")

(* -------------------------------- C12 ---------------------------------- *)
\* C12: every outbound record carries the fingerprint
\* [alertname, namespace, pod_name] and the server name namespace "/"
\* pod_name, an absent label giving the empty string; for the labels
\* PodDown, prod, web-1 they are ["PodDown","prod","web-1"] and "prod/web-1".
C12_FingerprintAndServerName ==
  \A k \in 1..Len(dispatched) :
    LET e == dispatched[k]
        l == e.alert.labels
    IN  /\ e.fingerprint = << ValueOrEmpty(l, "alertname"),
                              ValueOrEmpty(l, "namespace"),
                              ValueOrEmpty(l, "pod_name") >>
        /\ e.serverName = ValueOrEmpty(l, "namespace") \o "/"
                            \o ValueOrEmpty(l, "pod_name")
        /\ e.alert = FullAlert =>
             /\ e.fingerprint = << "PodDown", "prod", "web-1" >>
             /\ e.serverName = "prod/web-1"

\* the alert of the scenario has been dispatched with its rendered message
C12_Witness ==
  /\ Len(dispatched) = 1
  /\ dispatched[1].alert = FullAlert
  /\ dispatched[1].msg = "PodDown - prod/web-1\npod unresponsive"
  /\ dispatched[1].fingerprint = << "PodDown", "prod", "web-1" >>
  /\ wPc = "recv"

(* -------------------------------- C13 ---------------------------------- *)
\* state of the shutdown coordinator (NONE: before the listener and the
\* worker are started, and after a startup error)
Coord ==
  CASE runPc = "serving" -> "RUNNING"
    [] runPc \in {"shutdown", "shutwait", "drain"} -> "DRAINING"
    [] runPc = "returned" /\ runErr \in {"nil", "timeout"} -> "STOPPED"
    [] OTHER -> "NONE"

\* C13: the coordinator only moves RUNNING -> DRAINING -> STOPPED and stays
\* in STOPPED; the listener shutdown returns success only with no active
\* connection; the step that closes the queue is taken after the signal,
\* after that success and with a queue depth of zero, and ends in STOPPED;
\* nothing of run moves after the close (no second close); the queue is
\* never closed while the coordinator is RUNNING.
C13_CoordinatorStates ==
  /\ [](closed => (Coord = "STOPPED" /\ runErr = "nil" /\ observed))
  /\ [][/\ Coord = "RUNNING" => Coord' \in {"RUNNING", "DRAINING"}
        /\ Coord = "DRAINING" => Coord' \in {"DRAINING", "STOPPED"}
        /\ Coord = "STOPPED" => Coord' = "STOPPED"
        /\ (runPc /= "drain" /\ runPc' = "drain") =>
             \A h \in Handlers : ~Active(h)
        /\ (~closed /\ closed') =>
             /\ SignalReceived /\ runPc = "drain" /\ Len(chanBuf) = 0
             /\ Coord' = "STOPPED"
        /\ closed => (closed' /\ UNCHANGED << runPc, runErr >>)]_vars

\* the coordinator is STOPPED with the queue closed, after a request was
\* served and the listener was closed
C13_Witness ==
  /\ Coord = "STOPPED" /\ closed /\ observed /\ alive
  /\ listenPc = "closed"
  /\ hPc[1] = "done"

(* -------------------------------- C14 ---------------------------------- *)
\* position of request h in the order of the dequeues
DequeuePos(h) == CHOOSE k \in 1..Len(dequeued) : dequeued[k] = h

\* C14: the order in which sends complete is the order of the dequeues
\* (dequeued followed by the buffered messages only ever grows at its end,
\* by the message whose send completes); alerts of different messages are
\* dispatched in the order of the dequeues of their messages, every alert
\* of the earlier message before any alert of the later one, and never
\* interleaved.
C14_FifoWholeMessages ==
  /\ [](\A k \in 1..Len(dispatched) : \A l \in 1..Len(dispatched) :
          (k < l /\ dispatched[k].h /= dispatched[l].h) =>
             LET g == dispatched[k].h
                 h == dispatched[l].h
             IN  /\ Dequeued(g) /\ Dequeued(h)
                 /\ DequeuePos(g) < DequeuePos(h)
                 /\ Cardinality({ j \in 1..(l - 1) : dispatched[j].h = g })
                      = NumAlerts(g)
                 /\ \A j \in l..Len(dispatched) : dispatched[j].h /= g)
  /\ [][/\ \A h \in Handlers :
             (hPc[h] = "send" /\ hPc'[h] = "done") =>
                dequeued' \o chanBuf' = Append(dequeued \o chanBuf, h)
        /\ (\A h \in Handlers : ~(hPc[h] = "send" /\ hPc'[h] = "done")) =>
             dequeued' \o chanBuf' = dequeued \o chanBuf]_vars

\* two messages of two alerts each were dispatched one after the other
C14_Witness ==
  /\ Len(dispatched) = 4 /\ Len(dequeued) = 2
  /\ dispatched[1].h = dequeued[1] /\ dispatched[2].h = dequeued[1]
  /\ dispatched[3].h = dequeued[2] /\ dispatched[4].h = dequeued[2]

(* -------------------------------- C15 ---------------------------------- *)
\* C15: the worker has left its loop only if the queue is closed and empty
\* and every message it received was dispatched completely; once the queue
\* is closed the worker eventually leaves its loop, unless the process
\* exits first.
C15_WorkerTermination ==
  /\ [](wPc = "exited" =>
          /\ closed /\ chanBuf = <<>>
          /\ \A h \in Handlers :
               Dequeued(h) => Len(Attempts(h)) = NumAlerts(h))
  /\ closed ~> (wPc = "exited" \/ ~alive)

\* the worker left its loop in a live process after it dispatched a message
C15_Witness ==
  /\ wPc = "exited" /\ alive /\ closed
  /\ Len(dispatched) = MaxAlerts

(* -------------------------------- C16 ---------------------------------- *)
\* the worker holds alerts of its message that are not dispatched yet
WorkerBusy == wPc \in {"render", "wait"}

\* C16: neither the drain nor the exit of main waits for the worker: with
\* the worker in the middle of a message, the drain loop can close the
\* queue at once and main can exit at once.
C16_DrainIgnoresWorker ==
  /\ (alive /\ runPc = "drain" /\ WorkerBusy) => ENABLED DrainClose
  /\ (alive /\ runPc = "returned" /\ WorkerBusy) => ENABLED MainExit

\* run returned nil and the process exited with code 0 while the worker
\* had not yet submitted the second alert of the last message
C16_Witness ==
  /\ ~alive /\ exitCode = 0 /\ closed /\ observed /\ runErr = "nil"
  /\ wPc = "render" /\ wIdx = 2
  /\ Len(Attempts(wFrom)) < NumAlerts(wFrom)

(* -------------------------------- C17 ---------------------------------- *)
\* C17: while the worker waits for a completion signal, every step that is
\* not the arrival of that signal leaves the worker where it is: nothing is
\* submitted, nothing is dequeued, and a handler blocked on its send stays
\* blocked.
C17_HungSubmissionStalls ==
  [][(wPc = "wait" /\ inflight' = inflight) =>
        /\ UNCHANGED << wPc, wFrom, wAlerts, wIdx, dispatched, dequeued >>
        /\ \A h \in Handlers : hPc[h] = "send" => hPc'[h] = "send"]_vars

\* the listener shutdown waits while the worker waits for the completion of
\* its first submission and both requests are blocked behind it
C17_Witness ==
  /\ alive /\ runPc = "shutwait" /\ wPc = "wait" /\ inflight = 1
  /\ Len(dispatched) = 1
  /\ \E h \in Handlers : hPc[h] = "send"

(* -------------------------------- C18 ---------------------------------- *)
\* C18: when the queue is closed no handler is between its decode and the
\* completion of its send, and no handler ever panics on its send.
C18_NoSendOnClosed ==
  /\ closed => \A h \in Handlers : hPc[h] \in {"idle", "done"}
  /\ \A h \in Handlers : hPc[h] /= "panicked"

\* the queue was closed after both requests had handed over their messages
C18_Witness ==
  /\ closed /\ alive /\ Len(dequeued) = 2
  /\ \A h \in {1, 2} : hPc[h] = "done" /\ hBody[h].valid

(* -------------------------------- C19 ---------------------------------- *)
\* the worker waits for a completion signal while a handler is blocked
Stuck == wPc = "wait" /\ \E h \in Handlers : hPc[h] = "send"

\* C19: a handler has returned from a successful decode only if the worker
\* has received its message; when the listener shutdown has returned
\* success every decoded message has been received by the worker; and while
\* the worker is stuck with a handler blocked, the listener shutdown does
\* not return success: it keeps waiting or returns the grace-period error.
C19_HandlerWaitsForWorker ==
  /\ [](\A h \in Handlers :
          /\ (hPc[h] = "done" /\ hBody[h].valid) => Dequeued(h)
          /\ ((runPc = "drain" \/ closed) /\ hPc[h] /= "idle"
                /\ hBody[h].valid) => Dequeued(h))
  /\ [][(Stuck /\ Stuck' /\ runPc \in {"shutdown", "shutwait"}) =>
          \/ runPc' \in {"shutdown", "shutwait"}
          \/ (runPc' = "returned" /\ runErr' = "timeout")]_vars

\* the listener shutdown ended with the grace-period error while the worker
\* was stuck and a handler blocked
C19_Witness ==
  /\ alive /\ runErr = "timeout" /\ Stuck

(* -------------------------------- C20 ---------------------------------- *)
\* C20: len(hookChan) is 0 in every state, and when the listener shutdown
\* has returned success the drain loop can leave and close the queue at
\* once.
C20_DepthAlwaysZero ==
  /\ Len(chanBuf) = 0
  /\ (alive /\ runPc = "drain") => ENABLED DrainClose

\* the drain loop is reached with both messages received and the worker
\* still waiting for a completion
C20_Witness ==
  /\ alive /\ runPc = "drain" /\ wPc = "wait"
  /\ Len(dequeued) = 2 /\ Len(chanBuf) = 0

=============================================================================
